---- MODULE Spec2Model ----
(***************************************************************************)
(* Model of mobile/fix_all_overrides.py: a one-shot fixer that runs        *)
(* `flutter analyze`, extracts the annotate_overrides diagnostics and      *)
(* inserts an "@override" line above every reported line.                  *)
(*                                                                         *)
(* Texts (file contents, analyzer output, paths) are sequences of          *)
(* one-character strings, so that splitting, stripping, the regular        *)
(* expressions and int() are computed character by character.              *)
(***************************************************************************)
EXTENDS Integers, Sequences, FiniteSets, TLC

VARIABLES pc, stdout, fs, fs0, arg, issues, files_to_fix, file_idx,
          line_queue, fixed_count, printed, trace

vars == <<pc, stdout, fs, fs0, arg, issues, files_to_fix, file_idx,
          line_queue, fixed_count, printed, trace>>

(***************************************************************************)
(* Bounds of the checked instances.                                        *)
(***************************************************************************)
MaxFilePieces == 4
MaxOutPieces == 4
MaxReports == 3
MaxFileLines == 2

(***************************************************************************)
(* Character classes and literals of the program.                          *)
(***************************************************************************)
\* the characters of the model's alphabet that Python's \s and str.strip()
\* treat as whitespace
WHITESPACE == {" ", "\t", "\n", "\r"}

\* value of the characters matched by \d, as int() reads them
DigitVal ==
  [c \in {"0", "1", "2", "3", "4", "5", "6", "7", "8", "9"} |->
     CASE c = "0" -> 0 [] c = "1" -> 1 [] c = "2" -> 2 [] c = "3" -> 3
       [] c = "4" -> 4 [] c = "5" -> 5 [] c = "6" -> 6 [] c = "7" -> 7
       [] c = "8" -> 8 [] c = "9" -> 9]

DIGITS == DOMAIN DigitVal

\* '@override'
OVERRIDE == <<"@", "o", "v", "e", "r", "r", "i", "d", "e">>

\* 'annotate_overrides'
MARKER == <<"a", "n", "n", "o", "t", "a", "t", "e", "_",
            "o", "v", "e", "r", "r", "i", "d", "e", "s">>

\* the literal part '\.dart' ':' of the pattern
DOT_DART == <<".", "d", "a", "r", "t">>

(***************************************************************************)
(* Text helpers.                                                           *)
(***************************************************************************)
RECURSIVE Concat(_)
\* ''.join(lines) / what writelines() puts in the file
Concat(ss) == IF ss = <<>> THEN <<>> ELSE Head(ss) \o Concat(Tail(ss))

\* s[i:], 1-based
Drop(s, i) == SubSeq(s, i, Len(s))

\* s.startswith(lit, i) with 1-based i
LitAt(s, i, lit) ==
  /\ i + Len(lit) - 1 <= Len(s)
  /\ \A j \in 1..Len(lit) : s[i + j - 1] = lit[j]

\* lit in s
Contains(s, lit) == \E i \in 1..(Len(s) + 1) : LitAt(s, i, lit)

\* length of the longest run of characters of class cls starting at i
RECURSIVE RunLen(_, _, _)
RunLen(s, i, cls) ==
  IF i <= Len(s) /\ s[i] \in cls THEN 1 + RunLen(s, i + 1, cls) ELSE 0

\* length of the longest run of characters outside cls starting at i
RECURSIVE RunLenNot(_, _, _)
RunLenNot(s, i, cls) ==
  IF i <= Len(s) /\ s[i] \notin cls THEN 1 + RunLenNot(s, i + 1, cls) ELSE 0

\* text-mode decoding with universal newlines: '\r\n' and '\r' become '\n'
RECURSIVE UniversalNewlines(_)
UniversalNewlines(s) ==
  IF s = <<>> THEN <<>>
  ELSE IF Head(s) = "\r"
       THEN IF Len(s) >= 2 /\ s[2] = "\n"
            THEN <<"\n">> \o UniversalNewlines(Drop(s, 3))
            ELSE <<"\n">> \o UniversalNewlines(Tail(s))
       ELSE <<Head(s)>> \o UniversalNewlines(Tail(s))

\* f.readlines() on decoded text: lines keep their '\n'; a last line
\* without '\n' is a line too; the empty text has no line
RECURSIVE SplitKeepEnds(_)
SplitKeepEnds(s) ==
  IF s = <<>> THEN <<>>
  ELSE LET k == RunLenNot(s, 1, {"\n"})
       IN IF k = Len(s) THEN <<s>>
          ELSE <<SubSeq(s, 1, k + 1)>> \o SplitKeepEnds(Drop(s, k + 2))

\* open(file_path, 'r') ... f.readlines()
ReadLines(content) == SplitKeepEnds(UniversalNewlines(content))

\* s.split('\n'): the pieces between newlines, the last one included
RECURSIVE SplitNewline(_)
SplitNewline(s) ==
  LET k == RunLenNot(s, 1, {"\n"})
  IN IF k = Len(s) THEN <<s>>
     ELSE <<SubSeq(s, 1, k)>> \o SplitNewline(Drop(s, k + 2))

\* s.lstrip()
LStrip(s) == Drop(s, RunLen(s, 1, WHITESPACE) + 1)

RECURSIVE RStrip(_)
\* s.rstrip()
RStrip(s) ==
  IF s # <<>> /\ s[Len(s)] \in WHITESPACE
  THEN RStrip(SubSeq(s, 1, Len(s) - 1)) ELSE s

\* s.strip()
Strip(s) == RStrip(LStrip(s))

\* re.match(r'^(\s*)', target_line).group(1): \s matches '\n' as well
IndentMatch(target_line) ==
  SubSeq(target_line, 1, RunLen(target_line, 1, WHITESPACE))

(***************************************************************************)
(* fix_override(file_path, line_num): result and file system afterwards.   *)
(* The file system maps every existing path to its content.                *)
(***************************************************************************)
\* variant: the previous line compared without strip()
PrevIsOverrideUnstripped(lines, line_num) ==
  line_num > 1 /\ lines[line_num - 1] = OVERRIDE \o <<"\n">>

\* lines 41-43: the "@override already exists" test
PrevIsOverride(lines, line_num) ==
  line_num > 1 /\ Strip(lines[line_num - 1]) = OVERRIDE

\* line 48: lines.insert(line_num - 1, f"{indent}@override\n")
InsertOverride(lines, line_num) ==
  LET target_line == lines[line_num]
      indent == IndentMatch(target_line)
  IN SubSeq(lines, 1, line_num - 1)
       \o <<indent \o OVERRIDE \o <<"\n">>>>
       \o SubSeq(lines, line_num, Len(lines))

\* variant: the file is rewritten from the decoded lines before the line
\* number is validated
fix_override_WriteFirst(files, file_path, line_num) ==
  IF file_path \notin DOMAIN files
  THEN [ret |-> FALSE, fs |-> files, msg |-> "File not found"]
  ELSE LET lines == ReadLines(files[file_path])
           rewritten == [files EXCEPT ![file_path] = Concat(lines)]
       IN IF line_num <= 0 \/ line_num > Len(lines)
          THEN [ret |-> FALSE, fs |-> rewritten,
                msg |-> "Invalid line number"]
          ELSE IF PrevIsOverride(lines, line_num)
          THEN [ret |-> FALSE, fs |-> rewritten,
                msg |-> "@override already exists"]
          ELSE [ret |-> TRUE,
                fs |-> [files EXCEPT ![file_path] =
                          Concat(InsertOverride(lines, line_num))],
                msg |-> "Added"]

\* lines 22-53
fix_override(files, file_path, line_num) ==
  IF file_path \notin DOMAIN files
  THEN [ret |-> FALSE, fs |-> files, msg |-> "File not found"]
  ELSE LET lines == ReadLines(files[file_path])
       IN IF line_num <= 0 \/ line_num > Len(lines)
          THEN [ret |-> FALSE, fs |-> files, msg |-> "Invalid line number"]
          ELSE IF PrevIsOverride(lines, line_num)
          THEN [ret |-> FALSE, fs |-> files,
                msg |-> "@override already exists"]
          ELSE [ret |-> TRUE,
                fs |-> [files EXCEPT ![file_path] =
                          Concat(InsertOverride(lines, line_num))],
                msg |-> "Added"]

\* the record a call of fix_override with result r leaves in the trace
FixEvent(files, file_path, line_num, r) ==
  [op |-> "fix", file_path |-> file_path, line_num |-> line_num,
   ret |-> r.ret, msg |-> r.msg, fs_before |-> files, fs_after |-> r.fs]

(***************************************************************************)
(* get_override_issues: the scan of the analyzer's captured output.        *)
(***************************************************************************)
RECURSIVE ParseInt(_)
\* int(digits)
ParseInt(ds) ==
  IF ds = <<>> THEN 0
  ELSE ParseInt(SubSeq(ds, 1, Len(ds) - 1)) * 10 + DigitVal[ds[Len(ds)]]

SetMax(S) == CHOOSE x \in S : \A y \in S : y <= x

SetMin(S) == CHOOSE x \in S : \A y \in S : x <= y

\* the greedy (\d+) at position j followed by ':' and a digit: the lengths
\* the backtracking engine can settle on
LineDigitLens(s, j) ==
  {e \in 1..RunLen(s, j, DIGITS) :
     /\ j + e <= Len(s)
     /\ s[j + e] = ":"
     /\ RunLen(s, j + e + 1, DIGITS) >= 1}

\* r'\.dart:(\d+):(\d+)' matches at position j
TailMatches(s, j) ==
  /\ LitAt(s, j, DOT_DART \o <<":">>)
  /\ LineDigitLens(s, j + 6) # {}

\* the positions at which r'\.dart:(\d+):(\d+)' matches
DartTails(s) == {j \in 1..Len(s) : TailMatches(s, j)}

\* the lengths k of (\S+) starting at i after which the rest matches,
\* given the positions where the rest matches
PathLens(s, i, tails) ==
  {j - i : j \in {t \in tails : t > i /\ t - i <= RunLenNot(s, i, WHITESPACE)}}

\* re.search(r'(\S+\.dart):(\d+):(\d+)', line): the leftmost start, and
\* from it the longest \S+ and the longest digit runs (greedy quantifiers)
Search(line) ==
  LET tails == DartTails(line)
      starts == IF tails = {} THEN {}
                ELSE {i \in 1..Len(line) : PathLens(line, i, tails) # {}}
  IN IF starts = {} THEN [matched |-> FALSE]
     ELSE LET i == SetMin(starts)
              k == SetMax(PathLens(line, i, tails))
              j == i + k + 6
              e == SetMax(LineDigitLens(line, j))
              c == RunLen(line, j + e + 1, DIGITS)
          IN [matched |-> TRUE,
              g1 |-> SubSeq(line, i, i + k + 4),
              g2 |-> SubSeq(line, j, j + e - 1),
              g3 |-> SubSeq(line, j + e + 1, j + e + c)]

\* variant: the numbers are stored as 0-based indices
LineIssuesZeroBased(line) ==
  IF Contains(line, MARKER)
  THEN LET match == Search(line)
       IN IF match.matched
          THEN <<[file_path |-> match.g1,
                  line_num |-> ParseInt(match.g2) - 1,
                  col_num |-> ParseInt(match.g3) - 1]>>
          ELSE <<>>
  ELSE <<>>

\* lines 12-18: what one output line appends to issues
LineIssues(line) ==
  IF Contains(line, MARKER)
  THEN LET match == Search(line)
       IN IF match.matched
          THEN <<[file_path |-> match.g1,
                  line_num |-> ParseInt(match.g2),
                  col_num |-> ParseInt(match.g3)]>>
          ELSE <<>>
  ELSE <<>>

RECURSIVE ScanLines(_)
\* lines 11-18: the loop over result.stdout.split('\n')
ScanLines(lines) ==
  IF lines = <<>> THEN <<>>
  ELSE LineIssues(Head(lines)) \o ScanLines(Tail(lines))

RECURSIVE Dedup(_)
Dedup(s) ==
  IF s = <<>> THEN <<>>
  ELSE LET front == Dedup(SubSeq(s, 1, Len(s) - 1))
           last == s[Len(s)]
       IN IF \E i \in 1..Len(front) : front[i] = last
          THEN front ELSE Append(front, last)

\* variant: an issue reported twice is kept once
get_override_issues_Dedup(out) == Dedup(ScanLines(SplitNewline(out)))

\* lines 6-20, on the captured result.stdout
get_override_issues(out) == ScanLines(SplitNewline(out))

(***************************************************************************)
(* main: grouping and ordering.                                            *)
(***************************************************************************)
\* variant: no grouping, every issue opens an entry of its own
AddToPlanUngrouped(plan, issue) ==
  Append(plan, [file_path |-> issue.file_path,
                line_nums |-> <<issue.line_num>>])

\* lines 64-66: one issue added to the dict (keys keep insertion order)
AddToPlan(plan, issue) ==
  IF \E i \in 1..Len(plan) : plan[i].file_path = issue.file_path
  THEN [i \in 1..Len(plan) |->
          IF plan[i].file_path = issue.file_path
          THEN [plan[i] EXCEPT !.line_nums = Append(@, issue.line_num)]
          ELSE plan[i]]
  ELSE Append(plan, [file_path |-> issue.file_path,
                     line_nums |-> <<issue.line_num>>])

RECURSIVE GroupByFile(_, _)
\* lines 62-66
GroupByFile(plan, iss) ==
  IF iss = <<>> THEN plan
  ELSE GroupByFile(AddToPlan(plan, Head(iss)), Tail(iss))

\* the sequence without its first occurrence of x
RECURSIVE RemoveOne(_, _)
RemoveOne(s, x) ==
  IF s = <<>> THEN <<>>
  ELSE IF Head(s) = x THEN Tail(s) ELSE <<Head(s)>> \o RemoveOne(Tail(s), x)

SeqRange(s) == {s[i] : i \in 1..Len(s)}

RECURSIVE SortedAscending(_)
\* variant: sorted(line_nums) without reverse=True
SortedAscending(s) ==
  IF s = <<>> THEN <<>>
  ELSE LET m == SetMin(SeqRange(s))
       IN <<m>> \o SortedAscending(RemoveOne(s, m))

RECURSIVE SortedReverse(_)
\* line 72: sorted(line_nums, reverse=True)
SortedReverse(s) ==
  IF s = <<>> THEN <<>>
  ELSE LET m == SetMax(SeqRange(s))
       IN <<m>> \o SortedReverse(RemoveOne(s, m))

(***************************************************************************)
(* Inputs.                                                                 *)
(***************************************************************************)
A_DART == <<"a", ".", "d", "a", "r", "t">>
B_DART == <<"b", ".", "d", "a", "r", "t">>

\* all concatenations of at most n pieces
RECURSIVE PieceTexts(_, _)
PieceTexts(pieces, n) ==
  IF n = 0 THEN {<<>>}
  ELSE LET shorter == PieceTexts(pieces, n - 1)
       IN shorter \cup {t \o p : t \in shorter, p \in pieces}

FilePieces == {<<" ">>, <<"\n">>, <<"\r">>, <<"x">>, OVERRIDE}

(***************************************************************************)
(* Specification of one call of fix_override on an arbitrary file.         *)
(***************************************************************************)
InitFix ==
  /\ pc = "call_fix"
  /\ stdout = <<>>
  /\ \/ fs = << >>
     \/ \E content \in PieceTexts(FilePieces, MaxFilePieces) :
          fs = (A_DART :> content)
  /\ fs0 = fs
  /\ \E n \in (-1)..(MaxFilePieces + 2) :
       arg = [file_path |-> A_DART, line_num |-> n]
  /\ issues = <<>>
  /\ files_to_fix = <<>>
  /\ file_idx = 0
  /\ line_queue = <<>>
  /\ fixed_count = 0
  /\ printed = -1
  /\ trace = <<>>

CallFixOverride ==
  /\ pc = "call_fix"
  /\ LET r == fix_override(fs, arg.file_path, arg.line_num)
     IN /\ fs' = r.fs
        /\ trace' = Append(trace,
                           FixEvent(fs, arg.file_path, arg.line_num, r))
  /\ pc' = "returned"
  /\ UNCHANGED <<stdout, fs0, arg, issues, files_to_fix, file_idx,
                 line_queue, fixed_count, printed>>

NextFix == CallFixOverride

SpecFix == InitFix /\ [][NextFix]_vars

(***************************************************************************)
(* Specification of a whole run of main.                                   *)
(***************************************************************************)
\* an analyzer line reporting path:line:col, e.g.
\* "  a.dart:1:1 annotate_overrides"
Report(path, line, col, rule) ==
  <<" ", " ">> \o path \o <<":">> \o line \o <<":">> \o col \o <<" ">> \o rule

ReportLines ==
  { Report(A_DART, <<"1">>, <<"1">>, MARKER),
    Report(A_DART, <<"2">>, <<"3">>, MARKER),
    Report(B_DART, <<"1">>, <<"1">>, MARKER),
    Report(A_DART, <<"1">>, <<"1">>, <<"l", "i", "n", "t">>) }

\* a line with the marker and no location
MalformedLine == <<"1", " ">> \o MARKER

\* the outputs of the analyzer: at most n of the given lines, each ended
\* by a newline
RECURSIVE Outputs(_, _)
Outputs(lines, n) ==
  IF n = 0 THEN {<<>>}
  ELSE LET shorter == Outputs(lines, n - 1)
       IN shorter \cup {t \o l \o <<"\n">> : t \in shorter, l \in lines}

FileLineSet == { <<" ", "x", "\n">>, <<"\n">>, OVERRIDE \o <<"\n">> }

InitMain ==
  /\ pc = "start"
  /\ stdout \in Outputs(ReportLines, MaxReports)
  /\ \E a \in PieceTexts(FileLineSet, MaxFileLines) :
       \/ fs = (A_DART :> a)
       \/ fs = (A_DART :> a) @@ (B_DART :> <<"x", "\n">>)
  /\ fs0 = fs
  /\ arg = [file_path |-> <<>>, line_num |-> 0]
  /\ issues = <<>>
  /\ files_to_fix = <<>>
  /\ file_idx = 0
  /\ line_queue = <<>>
  /\ fixed_count = 0
  /\ printed = -1
  /\ trace = <<>>

\* line 58: issues = get_override_issues()
GetIssues ==
  /\ pc = "start"
  /\ issues' = get_override_issues(stdout)
  /\ trace' = Append(trace, [op |-> "analyze", captured |-> TRUE])
  /\ pc' = "group"
  /\ UNCHANGED <<stdout, fs, fs0, arg, files_to_fix, file_idx, line_queue,
                 fixed_count, printed>>

\* lines 62-68
BuildPlan ==
  /\ pc = "group"
  /\ files_to_fix' = GroupByFile(<<>>, issues)
  /\ file_idx' = 0
  /\ fixed_count' = 0
  /\ pc' = "files"
  /\ UNCHANGED <<stdout, fs, fs0, arg, issues, line_queue, printed, trace>>

\* lines 69-72: the next file of the plan and its sorted line numbers
NextFile ==
  /\ pc = "files"
  /\ file_idx < Len(files_to_fix)
  /\ file_idx' = file_idx + 1
  /\ line_queue' = SortedReverse(files_to_fix[file_idx + 1].line_nums)
  /\ pc' = "lines"
  /\ UNCHANGED <<stdout, fs, fs0, arg, issues, files_to_fix, fixed_count,
                 printed, trace>>

\* variant: a call that returns false ends the run
FixLineAbortOnFailure ==
  /\ pc = "lines"
  /\ line_queue # <<>>
  /\ LET file_path == files_to_fix[file_idx].file_path
         line_num == Head(line_queue)
         r == fix_override(fs, file_path, line_num)
     IN /\ fs' = r.fs
        /\ fixed_count' = IF r.ret THEN fixed_count + 1 ELSE fixed_count
        /\ trace' = Append(trace, FixEvent(fs, file_path, line_num, r))
        /\ printed' = IF r.ret THEN printed ELSE fixed_count
        /\ pc' = IF ~r.ret THEN "done"
                 ELSE IF Tail(line_queue) = <<>> THEN "files" ELSE "lines"
  /\ line_queue' = Tail(line_queue)
  /\ UNCHANGED <<stdout, fs0, arg, issues, files_to_fix, file_idx>>

\* lines 72-75: one iteration of the inner loop
FixLine ==
  /\ pc = "lines"
  /\ line_queue # <<>>
  /\ LET file_path == files_to_fix[file_idx].file_path
         line_num == Head(line_queue)
         r == fix_override(fs, file_path, line_num)
     IN /\ fs' = r.fs
        /\ fixed_count' = IF r.ret THEN fixed_count + 1 ELSE fixed_count
        /\ trace' = Append(trace, FixEvent(fs, file_path, line_num, r))
  /\ line_queue' = Tail(line_queue)
  /\ pc' = IF Tail(line_queue) = <<>> THEN "files" ELSE "lines"
  /\ UNCHANGED <<stdout, fs0, arg, issues, files_to_fix, file_idx, printed>>

\* lines 77-81: the count is printed and the analyzer runs again
Verify ==
  /\ pc = "files"
  /\ file_idx = Len(files_to_fix)
  /\ printed' = fixed_count
  /\ trace' = Append(trace, [op |-> "analyze", captured |-> FALSE])
  /\ pc' = "done"
  /\ UNCHANGED <<stdout, fs, fs0, arg, issues, files_to_fix, file_idx,
                 line_queue, fixed_count>>

Next == GetIssues \/ BuildPlan \/ NextFile \/ FixLine \/ Verify

Spec == InitMain /\ [][Next]_vars

(***************************************************************************)
(* Specification of one scan of an arbitrary analyzer output.              *)
(***************************************************************************)
OutPieces ==
  { MARKER, <<"\n">>, <<" ">>, A_DART \o <<":", "1", ":">>, <<"0">>,
    <<"1">> }

InitExtract ==
  /\ pc = "call_extract"
  /\ stdout \in PieceTexts(OutPieces, MaxOutPieces)
                  \cup Outputs(ReportLines \cup {MalformedLine}, MaxReports)
  /\ fs = << >>
  /\ fs0 = fs
  /\ arg = [file_path |-> <<>>, line_num |-> 0]
  /\ issues = <<>>
  /\ files_to_fix = <<>>
  /\ file_idx = 0
  /\ line_queue = <<>>
  /\ fixed_count = 0
  /\ printed = -1
  /\ trace = <<>>

CallGetOverrideIssues ==
  /\ pc = "call_extract"
  /\ issues' = get_override_issues(stdout)
  /\ pc' = "returned"
  /\ UNCHANGED <<stdout, fs, fs0, arg, files_to_fix, file_idx, line_queue,
                 fixed_count, printed, trace>>

NextExtract == CallGetOverrideIssues

SpecExtract == InitExtract /\ [][NextExtract]_vars

(***************************************************************************)
(* Vocabulary of the properties, stated without the program's helpers.     *)
(***************************************************************************)
\* number of lines of a file: its line terminators, plus one for a last
\* line that has none
TotalLines(content) ==
  LET text == UniversalNewlines(content)
  IN Cardinality({i \in 1..Len(text) : text[i] = "\n"})
       + (IF text # <<>> /\ text[Len(text)] # "\n" THEN 1 ELSE 0)

\* s is tok surrounded by whitespace only
TrimsTo(s, tok) ==
  \E i \in 1..Len(s) :
    /\ LitAt(s, i, tok)
    /\ \A j \in 1..Len(s) :
         (j < i \/ j >= i + Len(tok)) => s[j] \in WHITESPACE

\* a line without its terminator
LineContent(line) ==
  IF line # <<>> /\ line[Len(line)] = "\n"
  THEN SubSeq(line, 1, Len(line) - 1) ELSE line

\* the leading whitespace of a line's content
LeadingWhitespace(line) ==
  LET c == LineContent(line)
      k == CHOOSE n \in 0..Len(c) :
             /\ \A j \in 1..n : c[j] \in WHITESPACE
             /\ n < Len(c) => c[n + 1] \notin WHITESPACE
  IN SubSeq(c, 1, k)

\* the events of the calls of fix_override, in call order
FixEvents == SelectSeq(trace, LAMBDA e : e.op = "fix")

\* e is a call on an existing file with an in-range line and no
\* "@override" line above the target
NoGuardTriggers(e) ==
  /\ e.file_path \in DOMAIN e.fs_before
  /\ LET old == ReadLines(e.fs_before[e.file_path])
     IN /\ e.line_num \in 1..Len(old)
        /\ ~(e.line_num > 1 /\ TrimsTo(old[e.line_num - 1], OVERRIDE))

\* new is old with the one line indent+"@override" put before line n
OneLineInserted(old, new, n) ==
  /\ Len(new) = Len(old) + 1
  /\ new[n] = LeadingWhitespace(old[n]) \o OVERRIDE \o <<"\n">>
  /\ \A j \in 1..Len(old) : new[IF j < n THEN j ELSE j + 1] = old[j]

(***************************************************************************)
(* Properties of fix_override (SpecFix).                                   *)
(***************************************************************************)
\* C1: a call on an existing file with an in-range line number and no
\* guard triggered returns true and leaves the file with exactly one more
\* line, the target's leading whitespace followed by "@override", placed
\* immediately before the target line; all other lines keep content and order.
C1_InsertsExactlyOneLine ==
  pc = "returned" =>
    \A i \in 1..Len(FixEvents) :
      LET e == FixEvents[i]
      IN NoGuardTriggers(e) =>
           /\ e.ret
           /\ OneLineInserted(ReadLines(e.fs_before[e.file_path]),
                              ReadLines(fs[e.file_path]), e.line_num)

\* C2: a call on an existing file with a line number outside
\* [1, total_lines] returns false and leaves every file byte for byte as
\* it was.
C2_OutOfRangeLeavesFile ==
  (/\ pc = "returned"
   /\ arg.file_path \in DOMAIN fs0
   /\ (arg.line_num < 1 \/ arg.line_num > TotalLines(fs0[arg.file_path])))
  => (/\ ~FixEvents[1].ret
      /\ fs = fs0)

C2_Witness ==
  /\ pc = "returned"
  /\ arg.file_path \in DOMAIN fs0
  /\ TotalLines(fs0[arg.file_path]) >= 1
  /\ arg.line_num > TotalLines(fs0[arg.file_path])
  /\ \E i \in 1..Len(fs0[arg.file_path]) : fs0[arg.file_path][i] = "\r"
  /\ ~FixEvents[1].ret
  /\ fs = fs0

\* C3: when the line before an in-range target (line_num >= 2) is
\* "@override" once trimmed, the call returns false and the file is
\* unchanged; a call for line 1 of a non-empty file is never stopped by
\* that guard.
C3_ExistingAnnotationSkips ==
  (pc = "returned" /\ arg.file_path \in DOMAIN fs0) =>
    LET old == ReadLines(fs0[arg.file_path])
        n == arg.line_num
    IN /\ (n \in 2..Len(old) /\ TrimsTo(old[n - 1], OVERRIDE))
            => (~FixEvents[1].ret /\ fs = fs0)
       /\ (n = 1 /\ Len(old) >= 1)
            => (FixEvents[1].ret
                /\ FixEvents[1].msg # "@override already exists")

C3_Witness ==
  /\ pc = "returned"
  /\ arg.file_path \in DOMAIN fs0
  /\ LET old == ReadLines(fs0[arg.file_path])
         n == arg.line_num
     IN /\ n \in 2..Len(old)
        /\ TrimsTo(old[n - 1], OVERRIDE)
        /\ old[n - 1][1] = " "
        /\ ~FixEvents[1].ret
        /\ fs = fs0

(***************************************************************************)
(* Properties of get_override_issues (SpecExtract).                        *)
(***************************************************************************)
\* position of the j-th newline of text; 0 for j = 0 and Len(text) + 1
\* after the last one
NewlineAt(text, j) ==
  IF j = 0 THEN 0
  ELSE IF j > Cardinality({m \in 1..Len(text) : text[m] = "\n"})
  THEN Len(text) + 1
  ELSE CHOOSE i \in 1..Len(text) :
         /\ text[i] = "\n"
         /\ Cardinality({m \in 1..i : text[m] = "\n"}) = j

\* the lines of the analyzer's output, in order
OutputLines(text) ==
  [j \in 1..(Cardinality({m \in 1..Len(text) : text[m] = "\n"}) + 1) |->
     SubSeq(text, NewlineAt(text, j - 1) + 1, NewlineAt(text, j) - 1)]

\* the issue is spelled "path.dart:line:col" somewhere in the line
SpelledIn(line, issue) ==
  \E i \in 1..Len(line) : \E j \in i..Len(line) :
  \E k \in j..Len(line) : \E l \in k..Len(line) :
    /\ j - i >= 6
    /\ \A m \in i..(j - 1) : line[m] \notin WHITESPACE
    /\ LitAt(line, j - 5, DOT_DART)
    /\ line[j] = ":"
    /\ k >= j + 2
    /\ \A m \in (j + 1)..(k - 1) : line[m] \in DIGITS
    /\ line[k] = ":"
    /\ l >= k + 1
    /\ \A m \in (k + 1)..l : line[m] \in DIGITS
    /\ issue.file_path = SubSeq(line, i, j - 1)
    /\ issue.line_num = ParseInt(SubSeq(line, j + 1, k - 1))
    /\ issue.col_num = ParseInt(SubSeq(line, k + 1, l))

\* the line has the shape path.dart:line:col somewhere
MatchesPattern(line) ==
  \E i \in 1..Len(line) : \E j \in i..Len(line) :
    /\ j - i >= 6
    /\ \A m \in i..(j - 1) : line[m] \notin WHITESPACE
    /\ LitAt(line, j - 5, DOT_DART \o <<":">>)
    /\ \E k \in (j + 2)..Len(line) :
         /\ \A m \in (j + 1)..(k - 1) : line[m] \in DIGITS
         /\ line[k] = ":"
         /\ k + 1 <= Len(line)
         /\ line[k + 1] \in DIGITS

\* the output lines that carry the marker and the pattern, in order
ReportingLines(text) ==
  SelectSeq(OutputLines(text),
            LAMBDA line : Contains(line, MARKER) /\ MatchesPattern(line))

\* C6: the issues are, in order and with duplicates kept, one per output
\* line that contains "annotate_overrides" and matches path.dart:line:col;
\* all other lines give no issue.
C6_OneIssuePerReportingLine ==
  pc = "returned" =>
    LET reporting == ReportingLines(stdout)
    IN /\ Len(issues) = Len(reporting)
       /\ \A i \in 1..Len(issues) : SpelledIn(reporting[i], issues[i])

C6_Witness ==
  /\ pc = "returned"
  /\ Len(issues) = 2
  /\ issues[1] = issues[2]
  /\ Len(OutputLines(stdout)) > 3
  /\ \E j \in 1..Len(OutputLines(stdout)) :
       /\ Contains(OutputLines(stdout)[j], MARKER)
       /\ ~MatchesPattern(OutputLines(stdout)[j])

\* C10 as stated: every issue has line and column numbers >= 1.
C10_PositiveNumbers ==
  \A i \in 1..Len(issues) :
    issues[i].line_num >= 1 /\ issues[i].col_num >= 1

\* C10 as amended: every issue has line and column numbers that are
\* integers >= 0; zero is what a run of zeros such as "a.dart:1:0" yields.
C10_NonNegativeNumbers ==
  \A i \in 1..Len(issues) :
    /\ issues[i].line_num \in Nat
    /\ issues[i].col_num \in Nat

C10_Witness ==
  /\ pc = "returned"
  /\ \E i \in 1..Len(issues) : issues[i].col_num = 0

(***************************************************************************)
(* Properties of main (Spec).                                              *)
(***************************************************************************)
\* the files the analyzer reported
ReportedFiles == {issues[k].file_path : k \in 1..Len(issues)}

\* the reports of file f, as indices of issues
ReportsOf(f) == {k \in 1..Len(issues) : issues[k].file_path = f}

\* the line numbers reported for file f
ReportedLines(f) == {issues[k].line_num : k \in ReportsOf(f)}

\* the calls of fix_override on file f, as indices of FixEvents
CallsOn(f) == {i \in 1..Len(FixEvents) : FixEvents[i].file_path = f}

\* C4: a file with k distinct in-range reported lines and no guard
\* triggered ends k lines longer, with indent+"@override" directly above
\* the original content of every reported line.
C4_EachReportGetsOneAnnotation ==
  pc = "done" =>
    \A f \in ReportedFiles \cap DOMAIN fs0 :
      LET old == ReadLines(fs0[f])
          new == ReadLines(fs[f])
          nums == ReportedLines(f)
          Shift(n) == Cardinality({m \in nums : m <= n})
      IN (/\ Cardinality(ReportsOf(f)) = Cardinality(nums)
          /\ nums \subseteq 1..Len(old)
          /\ \A i \in CallsOn(f) : FixEvents[i].ret)
         => /\ Len(new) = Len(old) + Cardinality(nums)
            /\ \A n \in nums :
                 /\ new[n + Shift(n) - 1] =
                      LeadingWhitespace(old[n]) \o OVERRIDE \o <<"\n">>
                 /\ new[n + Shift(n)] = old[n]

\* C5: the calls on one file come with non-increasing line numbers, and
\* while lines of the file are pending, every pending in-range line number
\* below the one just processed still holds its original line.
C5_DescendingKeepsPendingPositions ==
  /\ \A i \in 1..Len(FixEvents) : \A j \in 1..Len(FixEvents) :
       (i < j /\ FixEvents[i].file_path = FixEvents[j].file_path)
         => FixEvents[i].line_num >= FixEvents[j].line_num
  /\ (/\ pc = "lines"
      /\ trace[Len(trace)].op = "fix"
      /\ trace[Len(trace)].file_path = files_to_fix[file_idx].file_path
      /\ files_to_fix[file_idx].file_path \in DOMAIN fs0)
     => LET f == files_to_fix[file_idx].file_path
            old == ReadLines(fs0[f])
            new == ReadLines(fs[f])
        IN \A q \in 1..Len(line_queue) :
             (/\ line_queue[q] < trace[Len(trace)].line_num
              /\ line_queue[q] \in 1..Len(old))
               => new[line_queue[q]] = old[line_queue[q]]

C5_Witness ==
  /\ pc = "lines"
  /\ trace[Len(trace)].op = "fix"
  /\ trace[Len(trace)].ret
  /\ trace[Len(trace)].file_path = files_to_fix[file_idx].file_path
  /\ fs # fs0
  /\ \E q \in 1..Len(line_queue) :
       /\ line_queue[q] < trace[Len(trace)].line_num
       /\ line_queue[q] >= 1

\* C7: a call that returns false changes nothing on disk; the run goes on:
\* at the end every reported (file, line) was tried once per report and
\* the printed count is the number of calls that returned true.
C7_SoftFailuresDoNotAbort ==
  /\ \A i \in 1..Len(FixEvents) :
       ~FixEvents[i].ret => FixEvents[i].fs_after = FixEvents[i].fs_before
  /\ (trace # <<>> /\ trace[Len(trace)].op = "fix")
       => fs = trace[Len(trace)].fs_after
  /\ pc = "done" =>
       /\ Len(FixEvents) = Len(issues)
       /\ \A k \in 1..Len(issues) :
            Cardinality({i \in CallsOn(issues[k].file_path) :
                           FixEvents[i].line_num = issues[k].line_num})
              = Cardinality({m \in ReportsOf(issues[k].file_path) :
                               issues[m].line_num = issues[k].line_num})
       /\ printed = Cardinality({i \in 1..Len(FixEvents) : FixEvents[i].ret})

C7_Witness ==
  /\ pc = "done"
  /\ printed = 1
  /\ \E i \in 1..Len(FixEvents) : \E j \in 1..Len(FixEvents) :
       /\ i < j
       /\ FixEvents[i].msg = "File not found"
       /\ FixEvents[j].msg = "Invalid line number"
  /\ \E i \in 1..Len(FixEvents) : \E j \in 1..Len(FixEvents) :
       /\ i < j
       /\ ~FixEvents[i].ret
       /\ FixEvents[j].ret

\* C8: a line number reported again for the same file gets no second
\* "@override": the repeated call returns false.
C8_DuplicateReportsInsertOnce ==
  \A i \in 1..Len(FixEvents) : \A j \in 1..Len(FixEvents) :
    (/\ i < j
     /\ FixEvents[i].file_path = FixEvents[j].file_path
     /\ FixEvents[i].line_num = FixEvents[j].line_num
     /\ FixEvents[i].ret)
      => ~FixEvents[j].ret

\* the runs of the analyzer, as indices of trace
AnalyzerRuns == {i \in 1..Len(trace) : trace[i].op = "analyze"}

\* C9: the analyzer runs twice in a run of main: first, captured, before any
\* patch; last, not captured, once every planned call has returned; in
\* between the files are patched in the order of their first report, each
\* file's lines together.
C9_TwoAnalyzerRunsAroundPatching ==
  /\ Cardinality(AnalyzerRuns) <= 2
  /\ trace # <<>> => (trace[1].op = "analyze" /\ trace[1].captured)
  /\ \A i \in AnalyzerRuns :
       i > 1 => /\ i = Len(trace)
                /\ ~trace[i].captured
                /\ Len(FixEvents) = Len(issues)
                /\ pc = "done"
  /\ pc = "done" => Cardinality(AnalyzerRuns) = 2
  /\ \A i \in 1..Len(FixEvents) : \A j \in 1..Len(FixEvents) :
       i < j => SetMin(ReportsOf(FixEvents[i].file_path))
                  <= SetMin(ReportsOf(FixEvents[j].file_path))

C9_Witness ==
  /\ pc = "done"
  /\ Len(issues) = 3
  /\ issues[1].file_path = A_DART
  /\ issues[2].file_path = B_DART
  /\ issues[3].file_path = A_DART
  /\ Len(FixEvents) = 3
  /\ FixEvents[2].file_path = A_DART
  /\ FixEvents[3].file_path = B_DART

====
